---- MODULE Spec2Model ----
(***************************************************************************)
(* A model of the weather chart application (src/app.js): the DataManager  *)
(* recency cache, the ChartRenderer viewport controller and its layout.    *)
(*                                                                         *)
(* JavaScript numbers are modelled as exact rationals <<n, d>> (d > 0, in  *)
(* lowest terms); pixel coordinates and temperatures (in tenths of a       *)
(* degree) are integers.  The canvas is always wider than its horizontal   *)
(* padding, so the per-bar pixel width is a positive rational.             *)
(***************************************************************************)
EXTENDS Integers, Sequences, FiniteSets, TLC

VARIABLES
    cache,              \* DataManager.cache: Map<key, data>
    accessHistory,      \* DataManager.accessHistory: keys, most recent last
    protocol,           \* window.location.protocol
    inflight,           \* fetchData calls suspended at their await
    ret,                \* what the last settled fetchData call gave its caller
    data,               \* ChartRenderer.data
    startIndex,         \* ChartRenderer.startIndex
    visibleCount,       \* ChartRenderer.visibleCount
    isDragging,         \* ChartRenderer.isDragging
    isZooming,          \* ChartRenderer.isZooming
    lastX,              \* ChartRenderer.lastX
    lastTouchDistance,  \* ChartRenderer.lastTouchDistance
    touches,            \* the touch points on the screen (e.touches)
    scaleInfo,          \* ChartRenderer.scaleInfo, written by draw()
    selectedIndex,      \* ChartRenderer.selectedIndex
    canvasWidth,        \* ChartRenderer.canvas.width
    lastOp,             \* history: the operation that produced this state
    accessLog,          \* history: the keys of the gets served, oldest first
    budget,             \* the pans, zooms and loads the behaviour may still make
    app                 \* WeatherApp: stationId, currentYear, availableYears,
                        \* the loadStation call in progress, the error banner

cacheVars == <<cache, accessHistory, protocol, inflight, ret, accessLog>>
chartVars == <<data, startIndex, visibleCount, isDragging, isZooming, lastX,
               lastTouchDistance, touches, scaleInfo, selectedIndex, canvasWidth>>
vars == <<cache, accessHistory, protocol, inflight, ret, data, startIndex,
          visibleCount, isDragging, isZooming, lastX, lastTouchDistance, touches,
          scaleInfo, selectedIndex, canvasWidth, lastOp, accessLog, budget, app>>

-----------------------------------------------------------------------------
(* Bounds of the model *)

\* fetchData calls that may be suspended at the same time
MaxInflight == 2
\* gets served from the cache or the data files in one behaviour
MaxAccesses == 5
\* zoom calls in one behaviour
MaxZooms == 2
\* drag moves in one behaviour
MaxPans == 2
\* zoom calls and drag moves in one behaviour that also selects days
MaxSelectZooms == 1
MaxSelectPans == 1
\* fingers on the screen at the same time
MaxTouches == 2
\* loadYear calls of the application in one behaviour
MaxLoads == 2
\* years on either side of a year getMockData is tried around
MockYearSpan == 4

-----------------------------------------------------------------------------
(* JavaScript values *)

undefined == [undefined |-> TRUE]
null == [null |-> TRUE]

\* an optional integer: <<>> when unset, <<i>> when set to i
Unset == <<>>

-----------------------------------------------------------------------------
(* Exact arithmetic on rationals <<n, d>> *)

RECURSIVE GCD(_, _)
GCD(a, b) == IF b = 0 THEN a ELSE GCD(b, a % b)

Abs(n) == IF n < 0 THEN -n ELSE n

Norm(n, d) ==
    LET s == IF d < 0 THEN -1 ELSE 1
        g == GCD(Abs(n), Abs(d))
    IN  <<(s * n) \div g, (s * d) \div g>>

R(i) == <<i, 1>>
Frac(n, d) == Norm(n, d)
RAdd(a, b) == Norm(a[1] * b[2] + b[1] * a[2], a[2] * b[2])
RSub(a, b) == Norm(a[1] * b[2] - b[1] * a[2], a[2] * b[2])
RMul(a, b) == Norm(a[1] * b[1], a[2] * b[2])
RDiv(a, b) == Norm(a[1] * b[2], a[2] * b[1])
RLt(a, b) == a[1] * b[2] < b[1] * a[2]
RLe(a, b) == a[1] * b[2] <= b[1] * a[2]
RMax(a, b) == IF RLt(a, b) THEN b ELSE a
RMin(a, b) == IF RLt(b, a) THEN b ELSE a
Floor(a) == a[1] \div a[2]
Ceil(a) == -((-a[1]) \div a[2])
Min(i, j) == IF i < j THEN i ELSE j
Max(i, j) == IF i > j THEN i ELSE j

-----------------------------------------------------------------------------
(* Datasets: { station, year, unit, days: [[date, min, max], ...] } *)

MAX_CACHE_SIZE == 3

Stations == {"108", "112"}
Years == {2024, 2025}

\* String(n).padStart(2, '0')
Pad2(n) == IF n < 10 THEN "0" \o ToString(n) ELSE ToString(n)

\* `${currentYear}-${monthStr}-${dayStr}`
DateStr(y, m, d) == ToString(y) \o "-" \o Pad2(m) \o "-" \o Pad2(d)

\* The number of days in the year's JSON file of a station.  The files are
\* static; a file with no usable day is a file the data directory can hold.
FileLength(stationId, year) ==
    IF stationId = "108" THEN (IF year = 2025 THEN 20 ELSE 16)
    ELSE (IF year = 2025 THEN 10 ELSE 0)

\* The day records of a file: consecutive January days, temperatures in
\* tenths of a degree that rise and fall from day to day.
FileDays(stationId, year) ==
    [i \in 1..FileLength(stationId, year) |->
        LET lo == ((i * 7) % 5) * 10 - 40 + (IF stationId = "108" THEN 0 ELSE 15)
        IN  <<DateStr(year, 1, i), lo, lo + 60 + (i % 3) * 10>>]

\* res.json() of `${DATA_BASE_URL}/${stationId}/${year}.json`
ServerFile(stationId, year) ==
    [station |-> stationId, year |-> year, unit |-> "celsius",
     days |-> FileDays(stationId, year)]

\* The outcomes of the Math.random() draws of one getMockData call.
RandomSeeds == {0, 1}

\* Mutant: every fourth year is a leap year
MUT_isLeap_everyFourth(year) == year % 4 = 0

isLeap(year) == (year % 4 = 0 /\ year % 100 # 0) \/ (year % 400 = 0)

daysInMonth(year) ==
    <<31, IF isLeap(year) THEN 29 ELSE 28, 31, 30, 31, 30, 31, 31, 30, 31, 30, 31>>

RECURSIVE DaysBefore(_, _)
DaysBefore(year, m) ==
    IF m = 1 THEN 0 ELSE DaysBefore(year, m - 1) + daysInMonth(year)[m - 1]

\* baseTemp + dailyVar, in tenths of a degree.  The seasonal cosine
\* 12.5 - 15 cos(angle) is replaced by the triangle wave through the same
\* extremes (coldest at day 15), which stays within 3.2 degrees of it; with
\* the seed's variation of at most 1 degree the value lies inside the band
\* baseTemp +/- 5 that dailyVar spans, so it is one the code can draw.
MockMid(dayCount, seed) ==
    LET p == (dayCount - 15) % 365
        q == IF p < 365 - p THEN p ELSE 365 - p
    IN  (600 * q) \div 365 - 25 + seed * (dayCount % 3) * 5

MockMonth(year, m, seed) ==
    [d \in 1..daysInMonth(year)[m] |->
        LET dayCount == DaysBefore(year, m) + d
        IN  <<DateStr(year, m, d), MockMid(dayCount, seed) - 50,
              MockMid(dayCount, seed) + 50>>]

RECURSIVE MockDays(_, _, _)
MockDays(year, m, seed) ==
    IF m = 0 THEN <<>> ELSE MockDays(year, m - 1, seed) \o MockMonth(year, m, seed)

\* The days array of each year and draw, computed once
MockDaysOf == [year \in Years, seed \in RandomSeeds |-> MockDays(year, 12, seed)]

\* The table holds the years of the data files; any other year is computed
\* when asked for
getMockData(stationId, year, seed) ==
    [station |-> stationId, year |-> year, unit |-> "celsius",
     days |-> IF year \in Years THEN MockDaysOf[year, seed]
              ELSE MockDays(year, 12, seed)]

-----------------------------------------------------------------------------
(* DataManager *)

getKey(stationId, year) == stationId \o "-" \o ToString(year)

\* Mutant: the key is appended without removing its earlier entry
MUT_updateAccess_noRemove(history, key) == Append(history, key)

\* Mutant: a key already listed keeps its place (insertion order, not recency)
MUT_updateAccess_fifo(history, key) ==
    IF \E i \in DOMAIN history : history[i] = key
    THEN history ELSE Append(history, key)

updateAccess(history, key) ==
    Append(SelectSeq(history, LAMBDA k : k # key), key)

\* Map.set
MapSet(map, key, value) ==
    [k \in DOMAIN map \cup {key} |-> IF k = key THEN value ELSE map[k]]

\* Map.delete
MapDelete(map, key) == [k \in DOMAIN map \ {key} |-> map[k]]

\* Mutant: the oldest key leaves the history but stays stored
MUT_addToCache_noDelete(map, history, key, value) ==
    LET map1 == MapSet(map, key, value)
        history1 == updateAccess(history, key)
    IN  IF Cardinality(DOMAIN map1) > MAX_CACHE_SIZE
        THEN [cache |-> map1, accessHistory |-> Tail(history1)]
        ELSE [cache |-> map1, accessHistory |-> history1]

\* Mutant: the key is pushed on the history without removing its old entry
MUT_addToCache_pushesKey(map, history, key, value) ==
    LET map1 == MapSet(map, key, value)
        history1 == Append(history, key)
    IN  IF Cardinality(DOMAIN map1) > MAX_CACHE_SIZE
        THEN LET oldestKey == Head(history1)
             IN  [cache |-> IF oldestKey \in DOMAIN map1
                            THEN MapDelete(map1, oldestKey) ELSE map1,
                  accessHistory |-> Tail(history1)]
        ELSE [cache |-> map1, accessHistory |-> history1]

\* The cache and the access history after addToCache(key, value)
addToCache(map, history, key, value) ==
    LET map1 == MapSet(map, key, value)
        history1 == updateAccess(history, key)
    IN  IF Cardinality(DOMAIN map1) > MAX_CACHE_SIZE
        THEN LET oldestKey == Head(history1)
             IN  [cache |-> IF oldestKey \in DOMAIN map1
                            THEN MapDelete(map1, oldestKey) ELSE map1,
                  accessHistory |-> Tail(history1)]
        ELSE [cache |-> map1, accessHistory |-> history1]

Calls == Stations \X Years

RECURSIVE SumOver(_, _)
SumOver(f, S) ==
    IF S = {} THEN 0
    ELSE LET x == CHOOSE x \in S : TRUE IN f[x] + SumOver(f, S \ {x})

InflightTotal == SumOver(inflight, Calls)

Returned(key, value) == [kind |-> "data", key |-> key, value |-> value]
Thrown(key) == [kind |-> "error", key |-> key, value |-> null]

\* fetchData(stationId, year) up to its await: a hit returns the stored
\* data, a miss issues the fetch and suspends.
fetchData(stationId, year) ==
    LET key == getKey(stationId, year) IN
    /\ Len(accessLog) + InflightTotal < MaxAccesses
    /\ key \in DOMAIN cache \/ InflightTotal < MaxInflight
    /\ IF key \in DOMAIN cache
       THEN /\ accessHistory' = updateAccess(accessHistory, key)
            /\ ret' = Returned(key, cache[key])
            /\ accessLog' = Append(accessLog, key)
            /\ UNCHANGED <<cache, inflight>>
       ELSE /\ inflight' = [inflight EXCEPT ![<<stationId, year>>] = @ + 1]
            /\ UNCHANGED <<cache, accessHistory, ret, accessLog>>
    /\ UNCHANGED protocol

\* A fetchData call of any caller
FetchData(stationId, year) ==
    /\ fetchData(stationId, year)
    /\ lastOp' = [op |-> "fetchData", station |-> stationId, year |-> year]
    /\ UNCHANGED <<budget, app>>
    /\ UNCHANGED chartVars

\* The continuation of a suspended fetchData whose fetch answered with the
\* file: the data is cached and returned.
fetchResolved(stationId, year) ==
    LET key == getKey(stationId, year)
        value == ServerFile(stationId, year)
        after == addToCache(cache, accessHistory, key, value)
    IN
    /\ inflight[<<stationId, year>>] > 0
    /\ inflight' = [inflight EXCEPT ![<<stationId, year>>] = @ - 1]
    /\ cache' = after.cache
    /\ accessHistory' = after.accessHistory
    /\ ret' = Returned(key, value)
    /\ accessLog' = Append(accessLog, key)
    /\ UNCHANGED protocol

\* The fetch of any caller's fetchData call answers
FetchResolved(stationId, year) ==
    /\ fetchResolved(stationId, year)
    /\ lastOp' = [op |-> "fetchResolved", station |-> stationId, year |-> year,
                  evicted |-> DOMAIN cache \ DOMAIN cache']
    /\ UNCHANGED <<budget, app>>
    /\ UNCHANGED chartVars

\* Mutant: the catch block refreshes the failed key's recency
MUT_FetchRejected_touches(stationId, year) ==
    LET key == getKey(stationId, year) IN
    /\ inflight[<<stationId, year>>] > 0
    /\ inflight' = [inflight EXCEPT ![<<stationId, year>>] = @ - 1]
    /\ IF protocol = "file:"
       THEN \E seed \in RandomSeeds :
                ret' = Returned(key, getMockData(stationId, year, seed))
       ELSE ret' = Thrown(key)
    /\ accessHistory' = updateAccess(accessHistory, key)
    /\ lastOp' = [op |-> "fetchRejected", station |-> stationId, year |-> year]
    /\ UNCHANGED <<cache, protocol, accessLog, budget, app>>
    /\ UNCHANGED chartVars

\* The continuation of a suspended fetchData whose fetch failed (network
\* error, status not ok, unparsable body): the catch block.
fetchRejected(stationId, year) ==
    LET key == getKey(stationId, year) IN
    /\ inflight[<<stationId, year>>] > 0
    /\ inflight' = [inflight EXCEPT ![<<stationId, year>>] = @ - 1]
    /\ IF protocol = "file:"
       THEN \E seed \in RandomSeeds :
                ret' = Returned(key, getMockData(stationId, year, seed))
       ELSE ret' = Thrown(key)
    /\ UNCHANGED <<cache, accessHistory, protocol, accessLog>>

\* The fetch of any caller's fetchData call fails
FetchRejected(stationId, year) ==
    /\ fetchRejected(stationId, year)
    /\ lastOp' = [op |-> "fetchRejected", station |-> stationId, year |-> year]
    /\ UNCHANGED <<budget, app>>
    /\ UNCHANGED chartVars

\* The call getMockData(stationId, year) the behaviour starts with is made
GetMockData(stationId, year, seed) ==
    /\ lastOp = [op |-> "call", station |-> stationId, year |-> year, seed |-> seed]
    /\ ret' = Returned(getKey(stationId, year), getMockData(stationId, year, seed))
    /\ lastOp' = [op |-> "getMockData", station |-> stationId, year |-> year,
                  seed |-> seed]
    /\ UNCHANGED <<cache, accessHistory, protocol, inflight, accessLog, budget, app>>
    /\ UNCHANGED chartVars

-----------------------------------------------------------------------------
(* ChartRenderer *)

minVisible == 14

\* draw()'s padding = { top: 40, right: 50, bottom: 40, left: 50 }
padding == [top |-> 40, right |-> 50, bottom |-> 40, left |-> 50]

total == Len(data.days)

\* Array.prototype.slice(start, end) on a sequence indexed from 1
Slice(seq, start, end) ==
    LET len == Len(seq)
        from == IF start < 0 THEN Max(len + start, 0) ELSE Min(start, len)
        to == IF end < 0 THEN Max(len + end, 0) ELSE Min(end, len)
    IN  IF from < to THEN SubSeq(seq, from + 1, to) ELSE <<>>

\* The layout draw() stores in scaleInfo for a dataset d, a window (s, vc)
\* and a canvas of width w; the early returns leave the old value in place.
Draw(d, s, vc, w, old) ==
    IF d = null THEN old
    ELSE LET days == d.days
             start == Floor(s)
             count == Ceil(vc)
             end == Min(Len(days), start + count)
             viewData == Slice(days, start, end)
             chartWidth == w - padding.left - padding.right
         IN  IF Len(viewData) = 0 THEN old
             ELSE [padding |-> padding,
                   barWidth |-> Frac(chartWidth, Len(viewData)),
                   viewData |-> viewData,
                   start |-> start]

\* tMid = (tMin + tMax) / 2 of a day record [dateStr, tMin, tMax]
tMid(day) == Frac(day[2] + day[3], 2)

\* The colour draw() gives the i-th candle (from 1) of the slice viewData
\* that starts at index start of the dataset
candleColor(viewData, start, i) ==
    LET prevMid == IF i = 1 THEN R(0) ELSE tMid(viewData[i - 1])
    IN  IF i - 1 > 0 \/ start > 0
        THEN IF RLt(tMid(viewData[i]), prevMid) THEN "#1f78b4" ELSE "#e31a1c"
        ELSE "#d63384"

\* Mutant: the position is clamped before the count is capped
MUT_clampWindow_positionFirst(d, s, vc) ==
    IF d = null THEN [startIndex |-> s, visibleCount |-> vc]
    ELSE LET n == R(Len(d.days))
             s1 == IF RLt(s, R(0)) THEN R(0) ELSE s
             s2 == IF RLt(n, RAdd(s1, vc)) THEN RSub(n, vc) ELSE s1
             vc1 == IF RLt(n, vc) THEN n ELSE vc
         IN  [startIndex |-> s2, visibleCount |-> vc1]

\* clampWindow() applied to a window (s, vc) over the dataset d
clampWindow(d, s, vc) ==
    IF d = null THEN [startIndex |-> s, visibleCount |-> vc]
    ELSE LET n == R(Len(d.days))
             vc1 == IF RLt(n, vc) THEN n ELSE vc
             s1 == IF RLt(s, R(0)) THEN R(0) ELSE s
             s2 == IF RLt(n, RAdd(s1, vc1)) THEN RSub(n, vc1) ELSE s1
         IN  [startIndex |-> s2, visibleCount |-> vc1]

centerRatio == Frac(1, 2)

\* Mutant: the new count is capped at total but has no floor
MUT_zoomWindow_noFloor(d, s, vc, amount) ==
    LET n == R(Len(d.days))
        newCount == RMul(vc, RSub(R(1), amount))
        currentCenter == RAdd(s, RMul(vc, centerRatio))
        vc1 == RMin(n, newCount)
    IN  [startIndex |-> RSub(currentCenter, RMul(vc1, centerRatio)),
         visibleCount |-> vc1]

\* Mutant: the window is resized from its left edge
MUT_zoomWindow_leftEdge(d, s, vc, amount) ==
    LET n == R(Len(d.days))
        newCount == RMul(vc, RSub(R(1), amount))
    IN  [startIndex |-> s,
         visibleCount |-> RMax(R(minVisible), RMin(n, newCount))]

\* zoom(amount) before its clampWindow(): the resized window around the
\* old center
zoomWindow(d, s, vc, amount) ==
    LET n == R(Len(d.days))
        newCount == RMul(vc, RSub(R(1), amount))
        currentCenter == RAdd(s, RMul(vc, centerRatio))
        vc1 == RMax(R(minVisible), RMin(n, newCount))
    IN  [startIndex |-> RSub(currentCenter, RMul(vc1, centerRatio)),
         visibleCount |-> vc1]

\* The window zoom(amount) leaves
zoomed(d, s, vc, amount) ==
    LET w == zoomWindow(d, s, vc, amount)
    IN  clampWindow(d, w.startIndex, w.visibleCount)

cacheFrame == UNCHANGED <<cacheVars, app>>

\* Mutant: the window of the previous dataset is kept, clamped to the new one
MUT_SetData_keepsWindow(d) ==
    /\ data' = d
    /\ startIndex' = clampWindow(d, startIndex, visibleCount).startIndex
    /\ visibleCount' = clampWindow(d, startIndex, visibleCount).visibleCount
    /\ scaleInfo' = Draw(d, startIndex', visibleCount', canvasWidth, scaleInfo)
    /\ UNCHANGED <<isDragging, isZooming, lastX, lastTouchDistance, touches,
                   selectedIndex, canvasWidth>>

\* setData(data)
SetData(d) ==
    /\ data' = d
    /\ startIndex' = R(0)
    /\ visibleCount' = R(Len(d.days))
    /\ scaleInfo' = Draw(d, startIndex', visibleCount', canvasWidth, scaleInfo)
    /\ UNCHANGED <<isDragging, isZooming, lastX, lastTouchDistance, touches,
                   selectedIndex, canvasWidth>>

\* chart.setData(dataset): a dataset is loaded into the chart
Load(d) ==
    /\ SetData(d)
    /\ lastOp' = [op |-> "load", length |-> Len(d.days),
                  fullBefore |-> IF data = null THEN TRUE
                                 ELSE startIndex = R(0) /\ visibleCount = R(total)]
    /\ UNCHANGED budget
    /\ cacheFrame

\* window 'resize': resize(); draw()
Resize(w) ==
    /\ canvasWidth' = w
    /\ scaleInfo' = Draw(data, startIndex, visibleCount, w, scaleInfo)
    /\ lastOp' = [op |-> "resize", width |-> w]
    /\ UNCHANGED <<data, startIndex, visibleCount, isDragging, isZooming, lastX,
                   lastTouchDistance, touches, selectedIndex, budget>>
    /\ cacheFrame

\* startDrag(x)
startDrag(x) ==
    /\ isDragging' = TRUE
    /\ lastX' = x

\* Mutant: a pan that runs into the edge of the dataset crops the window
MUT_drag_cropsWindow(x) ==
    IF ~isDragging \/ scaleInfo = undefined
    THEN UNCHANGED <<lastX, startIndex, visibleCount, scaleInfo>>
    ELSE LET dx == x - lastX
             barsMoved == RDiv(R(dx), scaleInfo.barWidth)
             n == R(Len(data.days))
             s1 == RMax(R(0), RMin(n, RSub(startIndex, barsMoved)))
         IN  /\ lastX' = x
             /\ startIndex' = s1
             /\ visibleCount' = RMin(visibleCount, RSub(n, s1))
             /\ scaleInfo' = Draw(data, startIndex', visibleCount', canvasWidth,
                                  scaleInfo)

\* drag(x)
drag(x) ==
    IF ~isDragging \/ scaleInfo = undefined
    THEN UNCHANGED <<lastX, startIndex, visibleCount, scaleInfo>>
    ELSE LET dx == x - lastX
             barsMoved == RDiv(R(dx), scaleInfo.barWidth)
             w == clampWindow(data, RSub(startIndex, barsMoved), visibleCount)
         IN  /\ lastX' = x
             /\ startIndex' = w.startIndex
             /\ visibleCount' = w.visibleCount
             /\ scaleInfo' = Draw(data, startIndex', visibleCount', canvasWidth,
                                  scaleInfo)

\* zoom(amount)
zoom(amount) ==
    IF data = null
    THEN UNCHANGED <<startIndex, visibleCount, scaleInfo>>
    ELSE LET w == zoomed(data, startIndex, visibleCount, amount)
         IN  /\ startIndex' = w.startIndex
             /\ visibleCount' = w.visibleCount
             /\ scaleInfo' = Draw(data, startIndex', visibleCount', canvasWidth,
                                  scaleInfo)

\* canvas 'mousedown'
MouseDown(x) ==
    /\ startDrag(x)
    /\ lastOp' = [op |-> "mousedown", x |-> x]
    /\ UNCHANGED <<data, startIndex, visibleCount, isZooming, lastTouchDistance, touches,
                   scaleInfo, selectedIndex, canvasWidth, budget>>
    /\ cacheFrame

\* Mutant: a pan drops the selection
MUT_MouseMove_dropsSelection(x) ==
    /\ (isDragging /\ scaleInfo # undefined) => budget.pans > 0
    /\ drag(x)
    /\ budget' = IF isDragging /\ scaleInfo # undefined
                 THEN [budget EXCEPT !.pans = @ - 1] ELSE budget
    /\ lastOp' = [op |-> "mousemove", x |-> x,
                  moved |-> isDragging /\ scaleInfo # undefined,
                  from |-> [startIndex |-> startIndex,
                            visibleCount |-> visibleCount]]
    /\ selectedIndex' = IF isDragging /\ scaleInfo # undefined
                        THEN Unset ELSE selectedIndex
    /\ UNCHANGED <<data, isDragging, isZooming, lastTouchDistance, touches,
                   canvasWidth>>
    /\ cacheFrame

\* window 'mousemove'
MouseMove(x) ==
    /\ (isDragging /\ scaleInfo # undefined) => budget.pans > 0
    /\ drag(x)
    /\ budget' = IF isDragging /\ scaleInfo # undefined
                 THEN [budget EXCEPT !.pans = @ - 1] ELSE budget
    /\ lastOp' = [op |-> "mousemove", x |-> x,
                  moved |-> isDragging /\ scaleInfo # undefined,
                  from |-> [startIndex |-> startIndex,
                            visibleCount |-> visibleCount]]
    /\ UNCHANGED <<data, isDragging, isZooming, lastTouchDistance, touches,
                   selectedIndex, canvasWidth>>
    /\ cacheFrame

\* window 'mouseup': endDrag()
MouseUp ==
    /\ isDragging' = FALSE
    /\ lastOp' = [op |-> "mouseup",
                  dragged |-> lastOp.op = "mousemove" /\ lastOp.moved]
    /\ UNCHANGED <<data, startIndex, visibleCount, isZooming, lastX,
                   lastTouchDistance, touches, scaleInfo, selectedIndex, canvasWidth,
                   budget>>
    /\ cacheFrame

\* chart.zoom(amount), as the wheel listener, the zoom buttons and the pinch
\* listener call it
Zoom(amount) ==
    /\ budget.zooms > 0
    /\ zoom(amount)
    /\ budget' = [budget EXCEPT !.zooms = @ - 1]
    /\ lastOp' = [op |-> "zoom", amount |-> amount,
                  from |-> [startIndex |-> startIndex,
                            visibleCount |-> visibleCount]]
    /\ UNCHANGED <<data, isDragging, isZooming, lastX, lastTouchDistance, touches,
                   selectedIndex, canvasWidth>>
    /\ cacheFrame

\* resetZoom()
ResetZoom ==
    /\ IF data = null
       THEN UNCHANGED <<startIndex, visibleCount, scaleInfo>>
       ELSE /\ startIndex' = R(0)
            /\ visibleCount' = R(total)
            /\ scaleInfo' = Draw(data, startIndex', visibleCount', canvasWidth,
                                 scaleInfo)
    /\ lastOp' = [op |-> "reset"]
    /\ UNCHANGED <<data, isDragging, isZooming, lastX, lastTouchDistance, touches,
                   selectedIndex, canvasWidth, budget>>
    /\ cacheFrame

\* Math.sqrt of a perfect square below 1000 * 1000
Sqrt(n) == CHOOSE r \in 0..1000 : r * r = n

\* getTouchDistance(touches), for touch points <<clientX, clientY>>
getTouchDistance(ts) ==
    LET dx == ts[1][1] - ts[2][1]
        dy == ts[1][2] - ts[2][2]
    IN  Sqrt(dx * dx + dy * dy)

\* canvas 'touchstart': a finger comes down at point p
TouchStart(p) ==
    LET ts == Append(touches, p) IN
    /\ Len(touches) < MaxTouches
    /\ \A i \in DOMAIN touches : touches[i] # p
    /\ touches' = ts
    /\ IF Len(ts) = 1
       THEN /\ startDrag(ts[1][1])
            /\ UNCHANGED <<isZooming, lastTouchDistance>>
       ELSE IF Len(ts) = 2
       THEN /\ isZooming' = TRUE
            /\ lastTouchDistance' = getTouchDistance(ts)
            /\ UNCHANGED <<isDragging, lastX>>
       ELSE UNCHANGED <<isDragging, lastX, isZooming, lastTouchDistance>>
    /\ lastOp' = [op |-> "touchstart", touches |-> ts]
    /\ UNCHANGED <<data, startIndex, visibleCount, scaleInfo, selectedIndex,
                   canvasWidth, budget>>
    /\ cacheFrame

\* window 'touchmove': finger i moves to point p
TouchMove(i, p) ==
    LET ts == [touches EXCEPT ![i] = p]
        panning == Len(ts) = 1 /\ ~isZooming
        pinching == Len(ts) = 2 /\ isZooming
        moving == panning /\ isDragging /\ scaleInfo # undefined
    IN
    /\ i \in DOMAIN touches
    /\ \A j \in DOMAIN touches : touches[j] # p
    /\ moving => budget.pans > 0
    /\ pinching => budget.zooms > 0
    /\ touches' = ts
    /\ IF panning
       THEN /\ drag(ts[1][1])
            /\ UNCHANGED lastTouchDistance
       ELSE IF pinching
       THEN /\ zoom(Frac((getTouchDistance(ts) - lastTouchDistance) * 2, 1000))
            /\ lastTouchDistance' = getTouchDistance(ts)
            /\ UNCHANGED lastX
       ELSE UNCHANGED <<lastX, startIndex, visibleCount, scaleInfo,
                        lastTouchDistance>>
    /\ budget' = IF moving THEN [budget EXCEPT !.pans = @ - 1]
                 ELSE IF pinching THEN [budget EXCEPT !.zooms = @ - 1]
                 ELSE budget
    /\ lastOp' = [op |-> "touchmove", touches |-> ts,
                  from |-> [startIndex |-> startIndex,
                            visibleCount |-> visibleCount]]
    /\ UNCHANGED <<data, isDragging, isZooming, selectedIndex, canvasWidth>>
    /\ cacheFrame

\* window 'touchend': finger i leaves the screen
TouchEnd(i) ==
    LET ts == SubSeq(touches, 1, i - 1) \o SubSeq(touches, i + 1, Len(touches)) IN
    /\ i \in DOMAIN touches
    /\ touches' = ts
    /\ isDragging' = FALSE
    /\ isZooming' = IF Len(ts) < 2 THEN FALSE ELSE isZooming
    /\ lastOp' = [op |-> "touchend", touches |-> ts]
    /\ UNCHANGED <<data, startIndex, visibleCount, lastX, lastTouchDistance,
                   scaleInfo, selectedIndex, canvasWidth, budget>>
    /\ cacheFrame

\* Mutant: the index is not checked against the dataset
MUT_clickTarget_noRangeCheck(mouseX) ==
    IF isDragging \/ scaleInfo = undefined THEN Unset
    ELSE IF mouseX < scaleInfo.padding.left THEN Unset
    ELSE LET visibleIndex ==
                 Floor(RDiv(R(mouseX - scaleInfo.padding.left), scaleInfo.barWidth))
         IN  <<scaleInfo.start + visibleIndex>>

\* The index handleClick(e) selects for a click at mouseX, Unset when the
\* click selects nothing
clickTarget(mouseX) ==
    IF isDragging \/ scaleInfo = undefined THEN Unset
    ELSE IF mouseX < scaleInfo.padding.left THEN Unset
    ELSE LET visibleIndex ==
                 Floor(RDiv(R(mouseX - scaleInfo.padding.left), scaleInfo.barWidth))
             actualIndex == scaleInfo.start + visibleIndex
         IN  IF data # null /\ actualIndex >= 0 /\ actualIndex < total
             THEN <<actualIndex>> ELSE Unset

\* canvas 'click': handleClick(e), and selectDay(index) when it selects
Click(mouseX) ==
    /\ IF clickTarget(mouseX) = Unset
       THEN UNCHANGED <<selectedIndex, scaleInfo>>
       ELSE /\ selectedIndex' = clickTarget(mouseX)
            /\ scaleInfo' = Draw(data, startIndex, visibleCount, canvasWidth,
                                 scaleInfo)
    /\ lastOp' = [op |-> "click", x |-> mouseX,
                  endsDrag |-> lastOp.op = "mouseup" /\ lastOp.dragged]
    /\ UNCHANGED <<data, startIndex, visibleCount, isDragging, isZooming, lastX,
                   lastTouchDistance, touches, canvasWidth, budget>>
    /\ cacheFrame

-----------------------------------------------------------------------------
(* WeatherApp *)

\* meta.json of a station as the generator writes it: the years it saved a
\* file with days for, in ascending order
MetaFile(stationId) ==
    [station_id |-> stationId,
     available_years |->
         SelectSeq(<<2024, 2025>>, LAMBDA y : FileLength(stationId, y) > 0)]

getMockMeta(stationId) ==
    [station_id |-> stationId,
     available_years |-> <<2020, 2021, 2022, 2023, 2024, 2025>>]

\* Array.prototype.indexOf
indexOf(seq, x) ==
    IF \E i \in DOMAIN seq : seq[i] = x
    THEN (CHOOSE i \in DOMAIN seq :
              seq[i] = x /\ \A j \in 1..(i - 1) : seq[j] # x) - 1
    ELSE -1

\* The error banner after showError(msg) with a message, and after
\* showError(null)
showError(msg) == [hidden |-> FALSE, text |-> msg]
hideError == [app.error EXCEPT !.hidden = TRUE]

Idle == [phase |-> "idle"]

\* loadYear(year) with this.stationId = stationId, called in the controller
\* state next: on a hit the await resumes before any other event, so
\* setData(data) and showError(null) follow at once; on a miss the call
\* suspends.  byStation says that loadStation awaits this call.
loadYear(stationId, year, next, byStation) ==
    LET key == getKey(stationId, year) IN
    /\ budget.loads > 0
    /\ budget' = [budget EXCEPT !.loads = @ - 1]
    /\ fetchData(stationId, year)
    /\ IF key \in DOMAIN cache
       THEN /\ SetData(cache[key])
            /\ app' = [next EXCEPT !.error = hideError,
                                   !.stationLoad = IF byStation THEN Idle ELSE @]
       ELSE /\ UNCHANGED chartVars
            /\ app' = [next EXCEPT
                          !.stationLoad =
                              IF byStation
                              THEN [phase |-> "year", call |-> <<stationId, year>>]
                              ELSE @]

\* stationSelect 'change': the select is disabled while a loadStation call
\* runs, and the event reports a new value
StationChange(id) ==
    /\ app.stationLoad.phase = "idle"
    /\ id # app.stationId
    /\ app' = [app EXCEPT !.stationId = id,
                          !.stationLoad = [phase |-> "meta", id |-> id]]
    /\ lastOp' = [op |-> "stationChange", station |-> id]
    /\ UNCHANGED <<cacheVars, budget>>
    /\ UNCHANGED chartVars

\* loadStation(id) after fetchMeta gave it meta
loadStation(meta) ==
    IF meta = null
    THEN /\ app' = [app EXCEPT !.error = showError("Station Meta not found"),
                               !.stationLoad = Idle]
         /\ UNCHANGED <<cacheVars, budget>>
         /\ UNCHANGED chartVars
    ELSE LET years == SortSeq(meta.available_years, LAMBDA a, b : a < b)
             year == IF indexOf(years, app.currentYear) >= 0
                     THEN app.currentYear ELSE years[Len(years)]
         IN  loadYear(app.stationId, year,
                      [app EXCEPT !.availableYears = [list |-> years],
                                  !.currentYear = year],
                      TRUE)

\* The fetch of meta.json answers
MetaResolved ==
    /\ app.stationLoad.phase = "meta"
    /\ loadStation(MetaFile(app.stationLoad.id))
    /\ lastOp' = [op |-> "metaResolved", station |-> app.stationLoad.id]

\* The fetch of meta.json fails: fetchMeta's catch block
MetaRejected ==
    /\ app.stationLoad.phase = "meta"
    /\ loadStation(IF protocol = "file:"
                   THEN getMockMeta(app.stationLoad.id) ELSE null)
    /\ lastOp' = [op |-> "metaRejected", station |-> app.stationLoad.id]

\* btnPrev / btnNext 'click': changeYear(offset)
ChangeYear(offset) ==
    LET years == app.availableYears.list
        newIndex == indexOf(years, app.currentYear) + offset
        loads == /\ app.availableYears # undefined
                 /\ newIndex >= 0
                 /\ newIndex < Len(years)
    IN  /\ IF loads
           THEN loadYear(app.stationId, years[newIndex + 1],
                         [app EXCEPT !.currentYear = years[newIndex + 1]], FALSE)
           ELSE /\ UNCHANGED <<cacheVars, app, budget>>
                /\ UNCHANGED chartVars
        /\ lastOp' = [op |-> "changeYear", offset |-> offset, loads |-> loads]

\* Whether the settling call for (stationId, year) is the one loadStation
\* awaits: it is when it is the only one in flight for the pair
StationAwaits(stationId, year) ==
    IF app.stationLoad.phase = "year" /\ app.stationLoad.call = <<stationId, year>>
    THEN IF inflight[<<stationId, year>>] = 1 THEN {TRUE} ELSE {TRUE, FALSE}
    ELSE {FALSE}

\* loadYear resumes with the fetched dataset: setData(data), showError(null)
YearResolved(stationId, year) ==
    /\ fetchResolved(stationId, year)
    /\ SetData(ServerFile(stationId, year))
    /\ \E mine \in StationAwaits(stationId, year) :
           app' = [app EXCEPT !.error = hideError,
                              !.stationLoad = IF mine THEN Idle ELSE @]
    /\ lastOp' = [op |-> "yearResolved", station |-> stationId, year |-> year]
    /\ UNCHANGED budget

\* Mutant: a failed load empties the chart's window
MUT_YearRejected_resetsWindow(stationId, year) ==
    /\ fetchRejected(stationId, year)
    /\ startIndex' = R(0)
    /\ visibleCount' = R(0)
    /\ UNCHANGED <<data, isDragging, isZooming, lastX, lastTouchDistance, touches,
                   scaleInfo, selectedIndex, canvasWidth>>
    /\ \E mine \in StationAwaits(stationId, year) :
           app' = [app EXCEPT
                      !.error = showError("Failed to load data for " \o ToString(year)),
                      !.stationLoad = IF mine THEN Idle ELSE @]
    /\ lastOp' = [op |-> "yearRejected", station |-> stationId, year |-> year]
    /\ UNCHANGED budget

\* loadYear resumes from a failed fetchData: under file: with the mock
\* dataset, otherwise in its catch block, showError(...)
YearRejected(stationId, year) ==
    /\ fetchRejected(stationId, year)
    /\ IF protocol = "file:" THEN SetData(ret'.value) ELSE UNCHANGED chartVars
    /\ \E mine \in StationAwaits(stationId, year) :
           app' = [app EXCEPT
                      !.error =
                          IF protocol = "file:" THEN hideError
                          ELSE showError("Failed to load data for " \o ToString(year)),
                      !.stationLoad = IF mine THEN Idle ELSE @]
    /\ lastOp' = [op |-> "yearRejected", station |-> stationId, year |-> year]
    /\ UNCHANGED budget

-----------------------------------------------------------------------------
(* Inputs *)

\* container.clientWidth, in pixels
Widths == {300, 500}

\* e.clientX of the mouse events that drag, in pixels
DragXs == {60, 90, 200}

\* e.clientX - rect.left of the clicks: in the left padding, over the bars,
\* in the right padding
ClickXs == {20, 60, 280}

\* The amounts zoom is called with: the wheel (0.1), the zoom buttons
\* (0.25, -0.25), a pinch of 250 pixels (0.5), and calls that ask for more
\* than the dataset holds (-1) or for less than nothing (3)
ZoomAmounts ==
    {Frac(1, 10), Frac(1, 4), Frac(-1, 4), Frac(1, 2), R(-1), R(3)}

\* The amounts of the zoom-in and zoom-out buttons
ButtonAmounts == {Frac(1, 4), Frac(-1, 4)}

\* The points <<clientX, clientY>> a finger touches; any two are 250 or 500
\* pixels apart
TouchPoints == {<<0, 0>>, <<150, 200>>, <<300, 400>>}

\* The years getMockData is asked for: the years around the century years
\* 1900, 2000 and 2100 and around 2024
MockYears == {c + d : c \in {1900, 2000, 2024, 2100}, d \in -MockYearSpan..MockYearSpan}

\* The datasets the chart is given: the stations' year files
Datasets == {ServerFile(c[1], c[2]) : c \in Calls}

-----------------------------------------------------------------------------
(* Specifications *)

\* The state after new DataManager()
ManagerConstructed ==
    /\ cache = <<>>
    /\ accessHistory = <<>>
    /\ protocol \in {"http:", "file:"}
    /\ inflight = [c \in Calls |-> 0]
    /\ ret = [kind |-> "none", key |-> "", value |-> null]
    /\ lastOp = [op |-> "init"]
    /\ accessLog = <<>>

\* The state after new ChartRenderer(canvasId)
ChartConstructed ==
    /\ data = null
    /\ startIndex = R(0)
    /\ visibleCount = R(365)
    /\ isDragging = FALSE
    /\ isZooming = FALSE
    /\ lastX = 0
    /\ lastTouchDistance = 0
    /\ touches = <<>>
    /\ scaleInfo = undefined
    /\ selectedIndex = Unset
    /\ canvasWidth \in Widths

\* The state after new WeatherApp(): init() has bound the listeners and
\* loadStation('108') waits for the station's meta.json
AppConstructed ==
    app = [stationId |-> "108",
           currentYear |-> 2025,
           availableYears |-> undefined,
           stationLoad |-> [phase |-> "meta", id |-> "108"],
           error |-> [hidden |-> TRUE, text |-> ""]]

Constructed == ManagerConstructed /\ ChartConstructed /\ AppConstructed

Init ==
    /\ Constructed
    /\ budget = [zooms |-> MaxZooms, pans |-> MaxPans, loads |-> MaxLoads]

\* The cache under any callers: gets may overlap and settle in any order
NextCache ==
    \E stationId \in Stations, year \in Years :
        \/ FetchData(stationId, year)
        \/ FetchResolved(stationId, year)
        \/ FetchRejected(stationId, year)

\* The chart under loads, the mouse, the zoom calls and resizes
NextView ==
    \/ \E d \in Datasets : Load(d)
    \/ \E w \in Widths : Resize(w)
    \/ \E x \in DragXs : MouseDown(x)
    \/ \E x \in DragXs : MouseMove(x)
    \/ MouseUp
    \/ \E amount \in ZoomAmounts : Zoom(amount)
    \/ ResetZoom

\* The chart on a canvas of one width under loads, the mouse, the zoom
\* calls and clicks
NextSelect ==
    \/ \E d \in Datasets : Load(d)
    \/ \E x \in DragXs : MouseDown(x)
    \/ \E x \in DragXs : MouseMove(x)
    \/ MouseUp
    \/ \E amount \in ZoomAmounts : Zoom(amount)
    \/ ResetZoom
    \/ \E x \in ClickXs : Click(x)

\* The chart under loads and touches
NextTouch ==
    \/ \E d \in Datasets : Load(d)
    \/ \E p \in TouchPoints : TouchStart(p)
    \/ \E i \in 1..MaxTouches, p \in TouchPoints : TouchMove(i, p)
    \/ \E i \in 1..MaxTouches : TouchEnd(i)

\* The application: station and year navigation, the fetches settling, and
\* the chart under zoom calls and clicks
NextApp ==
    \/ \E id \in Stations : StationChange(id)
    \/ MetaResolved
    \/ MetaRejected
    \/ \E offset \in {-1, 1} : ChangeYear(offset)
    \/ \E stationId \in Stations, year \in Years : YearResolved(stationId, year)
    \/ \E stationId \in Stations, year \in Years : YearRejected(stationId, year)
    \/ \E amount \in ButtonAmounts : Zoom(amount)
    \/ \E x \in ClickXs : Click(x)

\* The synthetic dataset generator called for any station and year
NextMock ==
    \E stationId \in Stations, year \in MockYears, seed \in RandomSeeds :
        GetMockData(stationId, year, seed)

Next == NextCache \/ NextView \/ NextSelect \/ NextTouch \/ NextApp \/ NextMock

Spec == Init /\ [][Next]_vars

InitCache == Init /\ canvasWidth = 300
SpecCache == InitCache /\ [][NextCache]_vars

InitView == Init /\ protocol = "http:"
SpecView == InitView /\ [][NextView]_vars

InitSelect ==
    /\ Constructed
    /\ protocol = "http:"
    /\ canvasWidth = 300
    /\ budget = [zooms |-> MaxSelectZooms, pans |-> MaxSelectPans,
                 loads |-> MaxLoads]
SpecSelect == InitSelect /\ [][NextSelect]_vars

SpecTouch == InitView /\ [][NextTouch]_vars

\* A getMockData call is about to be made, for some station, year and draws
InitMock ==
    /\ cache = <<>>
    /\ accessHistory = <<>>
    /\ protocol = "file:"
    /\ inflight = [c \in Calls |-> 0]
    /\ ret = [kind |-> "none", key |-> "", value |-> null]
    /\ accessLog = <<>>
    /\ ChartConstructed
    /\ canvasWidth = 300
    /\ AppConstructed
    /\ budget = [zooms |-> MaxZooms, pans |-> MaxPans, loads |-> MaxLoads]
    /\ \E stationId \in Stations, year \in MockYears, seed \in RandomSeeds :
           lastOp = [op |-> "call", station |-> stationId, year |-> year,
                     seed |-> seed]
SpecMock == InitMock /\ [][NextMock]_vars

InitApp ==
    /\ Constructed
    /\ protocol = "http:"
    /\ canvasWidth = 300
    /\ budget = [zooms |-> MaxSelectZooms, pans |-> 0, loads |-> MaxLoads]
SpecApp == InitApp /\ [][NextApp]_vars

\* A year of 365 days in the chart, pinched to 100 days and dragged to day 50
InitYear ==
    LET d == getMockData("108", 2025, 0) IN
    /\ ManagerConstructed
    /\ AppConstructed
    /\ protocol = "file:"
    /\ data = d
    /\ startIndex = R(50)
    /\ visibleCount = R(100)
    /\ isDragging = FALSE
    /\ isZooming = FALSE
    /\ lastX = 0
    /\ lastTouchDistance = 0
    /\ touches = <<>>
    /\ canvasWidth \in Widths
    /\ scaleInfo = Draw(d, R(50), R(100), canvasWidth, undefined)
    /\ selectedIndex = Unset
    /\ budget = [zooms |-> MaxZooms, pans |-> 0, loads |-> MaxLoads]

\* The chart from its construction and from the year view
SpecZoom == (InitView \/ InitYear) /\ [][NextView]_vars

-----------------------------------------------------------------------------
(* Properties *)

LastKey == getKey(lastOp.station, lastOp.year)

Window(s, vc) == [startIndex |-> s, visibleCount |-> vc]

ZoomedData == lastOp.op = "zoom" /\ data # null

\* The window lies inside the dataset
WindowInside ==
    /\ RLe(R(0), startIndex)
    /\ RLe(RAdd(startIndex, visibleCount), R(total))
    /\ RLe(visibleCount, R(total))

C2_ZoomKeepsMinVisible ==
    ZoomedData =>
        /\ RLe(R(minVisible), visibleCount)
        /\ RLe(visibleCount, R(total))

\* C2, amended: after every zoom of a loaded dataset, visibleCount <= total,
\* and minVisible <= visibleCount when the dataset has at least minVisible
\* days; a shorter dataset is shown whole (visibleCount = total).
C2_ZoomKeepsCountInRange ==
    ZoomedData =>
        /\ RLe(visibleCount, R(total))
        /\ total >= minVisible => RLe(R(minVisible), visibleCount)
        /\ total < minVisible => visibleCount = R(total)

C2_Witness ==
    /\ ZoomedData
    /\ lastOp.amount = R(3)
    /\ total = 20
    /\ visibleCount = R(minVisible)

\* C3: a zoom keeps the window's center startIndex + visibleCount/2 whenever
\* the resized window around that center fits inside the dataset (the clamp
\* has nothing to move); on 365 days, zoom(0.5) of the window (50, 100)
\* gives (75, 50).
C3_ZoomKeepsCenter ==
    ZoomedData =>
        LET center == RAdd(lastOp.from.startIndex,
                           RMul(lastOp.from.visibleCount, Frac(1, 2)))
            half == RMul(visibleCount, Frac(1, 2))
        IN  /\ (RLe(R(0), RSub(center, half)) /\ RLe(RAdd(center, half), R(total)))
                => RAdd(startIndex, half) = center
            /\ (total = 365 /\ lastOp.from = Window(R(50), R(100))
                    /\ lastOp.amount = Frac(1, 2))
                => (visibleCount = R(50) /\ startIndex = R(75))

C3_Witness ==
    /\ ZoomedData
    /\ total = 365
    /\ lastOp.from = Window(R(50), R(100))
    /\ lastOp.amount = Frac(1, 2)
    /\ visibleCount = R(50)
    /\ startIndex = R(75)

\* C4: the cache stores at most MAX_CACHE_SIZE datasets in every state,
\* whatever gets hit, miss, fail or overlap, and one insert evicts at most
\* one entry.
C4_CacheBounded ==
    /\ Cardinality(DOMAIN cache) <= MAX_CACHE_SIZE
    /\ lastOp.op = "fetchResolved" => Cardinality(lastOp.evicted) <= 1

C4_Witness ==
    /\ lastOp.op = "fetchResolved"
    /\ Cardinality(lastOp.evicted) = 1
    /\ Cardinality(DOMAIN cache) = MAX_CACHE_SIZE
    /\ InflightTotal > 0

\* The n most recently accessed distinct keys of a log of accesses
RECURSIVE RecentKeys(_, _)
RecentKeys(log, n) ==
    IF n = 0 \/ log = <<>> THEN {}
    ELSE LET k == log[Len(log)]
         IN  {k} \cup RecentKeys(SelectSeq(log, LAMBDA j : j # k), n - 1)

\* C5: the stored keys are exactly the (up to 3) most recently accessed
\* distinct keys of the gets served so far, so a 4th distinct key evicts the
\* least recently accessed one and a hit changes which key that is.
C5_CacheHoldsMostRecent ==
    DOMAIN cache = RecentKeys(accessLog, MAX_CACHE_SIZE)

C5_Witness ==
    /\ accessLog = <<"108-2025", "108-2024", "112-2025", "108-2025", "112-2024">>
    /\ lastOp.op = "fetchResolved"
    /\ lastOp.evicted = {"108-2024"}
    /\ DOMAIN cache = {"112-2025", "108-2025", "112-2024"}

\* C6: a get for a stored key returns the stored dataset, issues no fetch,
\* moves the key to the end of the access history and leaves the stored
\* keys, the datasets and the order of the other keys as they were.
C6_HitOnlyRefreshes ==
    [][\A stationId \in Stations, year \in Years :
        LET key == getKey(stationId, year) IN
        (/\ lastOp'.op = "fetchData"
         /\ lastOp'.station = stationId
         /\ lastOp'.year = year
         /\ key \in DOMAIN cache)
        => /\ ret' = Returned(key, cache[key])
           /\ inflight' = inflight
           /\ cache' = cache
           /\ Len(accessHistory') = Len(accessHistory)
           /\ accessHistory'[Len(accessHistory')] = key
           /\ SelectSeq(accessHistory', LAMBDA k : k # key)
                = SelectSeq(accessHistory, LAMBDA k : k # key)]_vars

C6_Witness ==
    /\ lastOp.op = "fetchData"
    /\ LastKey = "108-2025"
    /\ accessLog = <<"108-2025", "108-2024", "108-2025">>
    /\ accessHistory = <<"108-2024", "108-2025">>
    /\ ret = Returned("108-2025", ServerFile("108", 2025))

\* C7: a get that misses and whose fetch fails outside the file: protocol
\* throws, and neither its call nor its failure changes the stored keys,
\* the datasets or the access history.
C7_FailureLeavesCache ==
    [][\A stationId \in Stations, year \in Years :
        LET key == getKey(stationId, year) IN
        /\ (/\ lastOp'.op = "fetchData"
            /\ lastOp'.station = stationId
            /\ lastOp'.year = year
            /\ key \notin DOMAIN cache)
           => (cache' = cache /\ accessHistory' = accessHistory /\ ret' = ret)
        /\ (/\ lastOp'.op = "fetchRejected"
            /\ lastOp'.station = stationId
            /\ lastOp'.year = year
            /\ protocol # "file:")
           => (cache' = cache /\ accessHistory' = accessHistory
               /\ ret' = Thrown(key))]_vars

C7_Witness ==
    /\ lastOp.op = "fetchRejected"
    /\ protocol = "http:"
    /\ ret = Thrown(LastKey)
    /\ Cardinality(DOMAIN cache) = MAX_CACHE_SIZE
    /\ Len(accessHistory) = MAX_CACHE_SIZE

\* C8: after a get whose fetch failed under the file: protocol, the
\* synthetic dataset it returned is stored under the key and the key is the
\* most recently used.
C8_FallbackIsCached ==
    (lastOp.op = "fetchRejected" /\ protocol = "file:") =>
        /\ LastKey \in DOMAIN cache
        /\ cache[LastKey] = ret.value
        /\ accessHistory[Len(accessHistory)] = LastKey

\* C9: a get whose fetch answers with a dataset of zero days fails to its
\* caller and stores nothing.
C9_EmptyDatasetNotCached ==
    (lastOp.op = "fetchResolved" /\ FileLength(lastOp.station, lastOp.year) = 0) =>
        /\ ret.kind = "error"
        /\ LastKey \notin DOMAIN cache

\* C10: no day is selected in the initial state nor after a dataset is
\* loaded.
C10_LoadClearsSelection ==
    lastOp.op \in {"init", "load"} => selectedIndex = Unset

PanZoomOps == {"mousedown", "mousemove", "mouseup", "zoom", "reset"}

\* C11: a pan (mouse down, move, up), a zoom (wheel, button, pinch amount)
\* and a reset never change selectedIndex: a selected day stays selected
\* through them, also when it leaves the visible slice.
C11_PanZoomKeepSelection ==
    [][lastOp'.op \in PanZoomOps => selectedIndex' = selectedIndex]_vars

C11_Witness ==
    /\ lastOp.op = "mousemove"
    /\ lastOp.moved
    /\ selectedIndex = <<3>>
    /\ scaleInfo.start > 3

\* C12: in the event order mousedown, mousemove(s), mouseup, click, the
\* click leaves selectedIndex unchanged.
C12_ClickAfterDragSelectsNothing ==
    [][(/\ lastOp.op = "mouseup"
        /\ lastOp.dragged
        /\ lastOp'.op = "click")
       => selectedIndex' = selectedIndex]_vars

\* The index a click at mouseX maps to under the last drawn layout
MappedIndex(mouseX) ==
    scaleInfo.start
        + Floor(RDiv(R(mouseX - scaleInfo.padding.left), scaleInfo.barWidth))

\* C13: a click at an X left of the left padding, or at an X that maps to
\* an index outside 0..total-1, changes neither selectedIndex nor the window.
C13_ClickOutsideIsNoOp ==
    [][(/\ lastOp'.op = "click"
        /\ scaleInfo # undefined
        /\ data # null
        /\ \/ lastOp'.x < scaleInfo.padding.left
           \/ MappedIndex(lastOp'.x) < 0
           \/ MappedIndex(lastOp'.x) >= total)
       => /\ selectedIndex' = selectedIndex
          /\ startIndex' = startIndex
          /\ visibleCount' = visibleCount
          /\ data' = data]_vars

C13_Witness ==
    /\ lastOp.op = "click"
    /\ lastOp.x = 280
    /\ canvasWidth = 300
    /\ data # null
    /\ total = 20
    /\ visibleCount = R(20)
    /\ selectedIndex = <<1>>

\* C14: a pan leaves visibleCount as it was; of the dataset, the window and
\* the selection it changes only startIndex.
C14_PanKeepsVisibleCount ==
    [][lastOp'.op = "mousemove"
       => /\ visibleCount' = visibleCount
          /\ data' = data
          /\ selectedIndex' = selectedIndex]_vars

C14_Witness ==
    /\ lastOp.op = "mousemove"
    /\ lastOp.moved
    /\ startIndex # lastOp.from.startIndex
    /\ visibleCount = lastOp.from.visibleCount
    /\ RLt(visibleCount, R(total))

\* C15: after a dataset is loaded, startIndex = 0 and visibleCount is the
\* number of days of the new dataset, whatever the window and the dataset
\* before.
C15_LoadEntersFullView ==
    lastOp.op = "load" =>
        /\ startIndex = R(0)
        /\ visibleCount = R(total)
        /\ total = lastOp.length

C15_Witness ==
    /\ lastOp.op = "load"
    /\ ~lastOp.fullBefore
    /\ budget.zooms < MaxZooms
    /\ budget.pans < MaxPans
    /\ total = 10
    /\ startIndex = R(0)
    /\ visibleCount = R(10)

\* C16: a load whose failure reaches the application (the year's fetch or
\* the station's meta fetch fails outside the file: protocol) shows the
\* error and leaves the chart's dataset, its window, its selection and the
\* cache as they were.
C16_FailedLoadKeepsState ==
    [][(lastOp'.op \in {"yearRejected", "metaRejected"} /\ protocol # "file:")
       => /\ ~app'.error.hidden
          /\ data' = data
          /\ startIndex' = startIndex
          /\ visibleCount' = visibleCount
          /\ selectedIndex' = selectedIndex
          /\ cache' = cache
          /\ accessHistory' = accessHistory]_vars

C16_Witness ==
    /\ lastOp.op = "yearRejected"
    /\ ~app.error.hidden
    /\ data # null
    /\ selectedIndex # Unset
    /\ RLt(visibleCount, R(total))
    /\ DOMAIN cache # {}

\* C17: at most one dataset retrieval is in flight at any time, for any
\* sequence of prev/next-year and station-change events.
C17_LoadsSerialized ==
    InflightTotal <= 1

\* The length of month m of a year: thirty days have September, April, June
\* and November, February 28 or 29, the others 31
CalendarMonthLength(year, m) ==
    IF m \in {4, 6, 9, 11} THEN 30
    ELSE IF m # 2 THEN 31
    ELSE IF (year % 4 = 0 /\ year % 100 # 0) \/ year % 400 = 0 THEN 29
    ELSE 28

RECURSIVE CalendarDaysThrough(_, _)
CalendarDaysThrough(year, m) ==
    IF m = 0 THEN 0
    ELSE CalendarDaysThrough(year, m - 1) + CalendarMonthLength(year, m)

\* The date of the n-th day of a year
CalendarDate(year, n) ==
    LET m == CHOOSE k \in 1..12 :
                 CalendarDaysThrough(year, k - 1) < n
                     /\ n <= CalendarDaysThrough(year, k)
    IN  DateStr(year, m, n - CalendarDaysThrough(year, m - 1))

\* C18: the synthetic dataset of a year has 366 days when the year is
\* divisible by 4 and not by 100, or divisible by 400, and 365 days
\* otherwise, and its n-th record is dated the n-th calendar day of the
\* year: chronological, one record per day.
C18_MockYearIsCalendarYear ==
    lastOp.op = "getMockData" =>
        LET days == ret.value.days
            year == lastOp.year
            leap == (year % 4 = 0 /\ year % 100 # 0) \/ year % 400 = 0
        IN  /\ Len(days) = IF leap THEN 366 ELSE 365
            /\ \A n \in 1..Len(days) : days[n][1] = CalendarDate(year, n)
            /\ ret.value.year = year

C18_Witness ==
    /\ lastOp.op = "getMockData"
    /\ lastOp.year = 1900
    /\ Len(ret.value.days) = 365
    /\ ret.value.days[60][1] = "1900-03-01"
    /\ ret.value.days[365][1] = "1900-12-31"

\* How often a key is listed in a history
Count(history, key) == Cardinality({i \in DOMAIN history : history[i] = key})

\* C19: whatever gets overlap, a key is listed in the access history once
\* when it is stored and not at all when it is not; after each of two
\* overlapping gets of one key completes, the key is stored once with the
\* file's dataset, and the cache holds at most MAX_CACHE_SIZE datasets.
C19_OverlapLeavesOneEntry ==
    /\ \A c \in Calls :
           Count(accessHistory, getKey(c[1], c[2]))
               = IF getKey(c[1], c[2]) \in DOMAIN cache THEN 1 ELSE 0
    /\ Len(accessHistory) = Cardinality(DOMAIN cache)
    /\ Cardinality(DOMAIN cache) <= MAX_CACHE_SIZE
    /\ lastOp.op = "fetchResolved" =>
           /\ LastKey \in DOMAIN cache
           /\ cache[LastKey] = ServerFile(lastOp.station, lastOp.year)

C19_Witness ==
    /\ lastOp.op = "fetchResolved"
    /\ LastKey = "108-2025"
    /\ accessLog = <<"108-2025", "108-2025">>
    /\ accessHistory = <<"108-2025">>
    /\ DOMAIN cache = {"108-2025"}
    /\ InflightTotal = 0

\* C20: a second touch turns pinch mode on, a touch end that leaves fewer
\* than two touches turns it off, and in every state where pinch mode is on
\* the dragging mode is off.
C20_PinchExcludesDrag ==
    /\ (lastOp.op = "touchstart" /\ Len(touches) = 2) => isZooming
    /\ (lastOp.op = "touchend" /\ Len(touches) < 2) => ~isZooming
    /\ isZooming => ~isDragging

\* Whether the midpoint of the i-th day of a slice is below that of the day
\* before it in the slice
day2Below(viewData, i) ==
    viewData[i][2] + viewData[i][3] < viewData[i - 1][2] + viewData[i - 1][3]

C22_LayoutNeverStale ==
    data # null =>
        /\ scaleInfo # undefined
        /\ scaleInfo.start = Floor(startIndex)
        /\ scaleInfo.viewData
               = Slice(data.days, Floor(startIndex),
                       Min(total, Floor(startIndex) + Ceil(visibleCount)))

\* C23: selectedIndex is unset or an index of the dataset the chart holds.
C23_SelectionInsideDataset ==
    selectedIndex # Unset =>
        /\ data # null
        /\ 0 <= selectedIndex[1]
        /\ selectedIndex[1] < total

\* C24: a click that changes selectedIndex selects a day of the slice last
\* rendered: start <= selectedIndex < start + the slice's length.
C24_SelectsInsideSlice ==
    [][(lastOp'.op = "click" /\ selectedIndex' # selectedIndex)
       => /\ scaleInfo.start <= selectedIndex'[1]
          /\ selectedIndex'[1] < scaleInfo.start + Len(scaleInfo.viewData)]_vars

\* C25: whenever no load is in progress (no dataset fetch in flight, no
\* loadStation running), the dataset the chart holds is the file of the
\* controller's stationId and currentYear.
C25_ChartShowsCurrentYear ==
    (InflightTotal = 0 /\ app.stationLoad.phase = "idle" /\ data # null)
        => data = ServerFile(app.stationId, app.currentYear)

====
